---- MODULE Spec2Model ----
(***************************************************************************)
(* Model of the render-configuration registry, the BlobCDN rewriter, the   *)
(* AnimationRequest model, the item map endpoint and the progress-bar      *)
(* stamp of planetary-computer-apis.                                       *)
(*                                                                         *)
(* Text is modelled as a sequence of symbols.  A symbol is either a        *)
(* delimiter character ("&", "=", "/", ".", "?", ",") or a chunk of text   *)
(* that contains no delimiter and that no other chunks concatenate to      *)
(* ("collection", "naipeuwest", "blob.core.windows" is the one chunk that  *)
(* str.replace looks for).  Splitting, joining, matching and replacing     *)
(* work on these sequences the way the Python code works on characters.    *)
(***************************************************************************)
EXTENDS Integers, Sequences, FiniteSets, TLC

VARIABLES
    op,         \* the operation this run exercises
    args,       \* its inputs
    pc,         \* "start" before the operation ran, "done" after
    requests,   \* the AnimationRequest objects constructed (none or one)
    errors,     \* validation errors of the construction, per field
    called,     \* last AnimationRequest method called
    ret,        \* value returned by the last call
    raised      \* exception the last call raised ("" when it returned)

vars == <<op, args, pc, requests, errors, called, ret, raised>>

----------------------------------------------------------------------------
(* Bounds *)

MaxSegments == 3      \* '&'-separated segments in a render_params input
MaxFramesInput == 6   \* requested frame counts -1..MaxFramesInput
MaxPathParts == 2     \* parts after the host in a URL input
MaxWidth == 22        \* image widths 1..MaxWidth
MaxFrameCount == 23   \* frame_count 1..MaxFrameCount of a stamp context

----------------------------------------------------------------------------
(* Text helpers: str.split, str.join *)

Min(a, b) == IF a <= b THEN a ELSE b

Abs(x) == IF x < 0 THEN -x ELSE x

Sign(x) == IF x < 0 THEN -1 ELSE 1

RECURSIVE split(_, _)
split(s, sep) ==
    IF \A i \in 1..Len(s) : s[i] # sep
    THEN <<s>>
    ELSE LET i == CHOOSE i \in 1..Len(s) :
                      s[i] = sep /\ \A j \in 1..(i - 1) : s[j] # sep
         IN  <<SubSeq(s, 1, i - 1)>> \o split(SubSeq(s, i + 1, Len(s)), sep)

RECURSIVE join(_, _)
join(parts, sep) ==
    IF Len(parts) = 0 THEN <<>>
    ELSE IF Len(parts) = 1 THEN parts[1]
    ELSE parts[1] \o <<sep>> \o join(Tail(parts), sep)

RECURSIVE concat(_)
concat(parts) ==
    IF Len(parts) = 0 THEN <<>> ELSE parts[1] \o concat(Tail(parts))

----------------------------------------------------------------------------
(* pcfuncs/animation/models.py *)

\* A Dict[str, List[str]] is a sequence of entries in insertion order.
DictHas(d, k) == \E i \in 1..Len(d) : d[i].key = k

DictGet(d, k) == d[CHOOSE i \in 1..Len(d) : d[i].key = k].value

\* A dict that keeps only the last value of a repeated key.
DictAppend_overwrite(d, k, v) ==
    IF DictHas(d, k)
    THEN [i \in 1..Len(d) |->
            IF d[i].key = k THEN [key |-> k, value |-> <<v>>] ELSE d[i]]
    ELSE Append(d, [key |-> k, value |-> <<v>>])

DictAppend(d, k, v) ==
    IF DictHas(d, k)
    THEN [i \in 1..Len(d) |->
            IF d[i].key = k
            THEN [key |-> k, value |-> Append(d[i].value, v)]
            ELSE d[i]]
    ELSE Append(d, [key |-> k, value |-> <<v>>])

\* The loop of _get_render_options over the segments still to read.
\* "k, v = p.split('=')" raises ValueError unless the split has two parts.
RECURSIVE render_options_loop(_, _)
render_options_loop(parts, result) ==
    IF Len(parts) = 0 THEN [raised |-> FALSE, result |-> result]
    ELSE LET kv == split(parts[1], "=")
         IN  IF Len(kv) # 2
             THEN [raised |-> TRUE, result |-> <<>>]
             ELSE render_options_loop(Tail(parts),
                                      DictAppend(result, kv[1], kv[2]))

_get_render_options(render_params) ==
    render_options_loop(split(render_params, "&"), <<>>)

_deltas_keys == <<"mins", "hours", "days", "weeks", "months", "years">>

InDeltas(unit) == \E i \in 1..Len(_deltas_keys) : _deltas_keys[i] = unit

\* relativedelta._fix: carries minutes into hours, hours into days and
\* months into years, sign and magnitude apart.
Carry(x, base) == Sign(x) * (Abs(x) \div base)

Rest(x, base) == Sign(x) * (Abs(x) % base)

relativedelta(years, months, days, hours, minutes) ==
    LET h  == hours + Carry(minutes, 60)
        d  == days + Carry(h, 24)
    IN  [years   |-> years + Carry(months, 12),
         months  |-> Rest(months, 12),
         days    |-> d,
         hours   |-> Rest(h, 24),
         minutes |-> Rest(minutes, 60)]

\* "weeks" built as that many days.
_deltas_weeks_as_days(unit, step) ==
    CASE unit = "mins"   -> relativedelta(0, 0, 0, 0, step)
      [] unit = "hours"  -> relativedelta(0, 0, 0, step, 0)
      [] unit = "days"   -> relativedelta(0, 0, step, 0, 0)
      [] unit = "weeks"  -> relativedelta(0, 0, step, 0, 0)
      [] unit = "months" -> relativedelta(0, step, 0, 0, 0)
      [] unit = "years"  -> relativedelta(step, 0, 0, 0, 0)

_deltas(unit, step) ==
    CASE unit = "mins"   -> relativedelta(0, 0, 0, 0, step)
      [] unit = "hours"  -> relativedelta(0, 0, 0, step, 0)
      [] unit = "days"   -> relativedelta(0, 0, step, 0, 0)
      [] unit = "weeks"  -> relativedelta(0, 0, step * 7, 0, 0)
      [] unit = "months" -> relativedelta(0, step, 0, 0, 0)
      [] unit = "years"  -> relativedelta(step, 0, 0, 0, 0)

\* No error is the empty message.
NoError == <<>>

\* The collection count checked with "< 1" instead of "!= 1".
_validate_render_params_atleast(v) ==
    LET render_options == _get_render_options(v)
    IN  IF render_options.raised
        THEN <<"Invalid render_params">>
        ELSE IF ~DictHas(render_options.result, <<"collection">>)
        THEN <<"Missing collection in render_params">>
        ELSE IF Len(DictGet(render_options.result, <<"collection">>)) < 1
        THEN <<"Multiple collections in render_params">>
        ELSE NoError

_validate_render_params(v) ==
    LET render_options == _get_render_options(v)
    IN  IF render_options.raised
        THEN <<"Invalid render_params">>
        ELSE IF ~DictHas(render_options.result, <<"collection">>)
        THEN <<"Missing collection in render_params">>
        ELSE IF Len(DictGet(render_options.result, <<"collection">>)) # 1
        THEN <<"Multiple collections in render_params">>
        ELSE NoError

_validate_unit(v) ==
    IF ~InDeltas(v)
    THEN <<"Invalid unit. Must be one of: ">>
         \o join([i \in 1..Len(_deltas_keys) |-> <<_deltas_keys[i]>>], ", ")
    ELSE NoError

\* urllib.parse.quote with the default safe="/": unreserved text and "/" are
\* kept, every other character becomes its percent escape.
quote_symbol(c) ==
    CASE c = " " -> "%20"
      [] c = "," -> "%2C"
      [] c = "|" -> "%7C"
      [] c = "?" -> "%3F"
      [] OTHER   -> c

quote(v) == [i \in 1..Len(v) |-> quote_symbol(v[i])]

(* datetime and dateutil.relativedelta arithmetic *)

IsLeap(y) == (y % 4 = 0) /\ ((y % 100 # 0) \/ (y % 400 = 0))

\* calendar.monthrange(year, month)[1]
DaysInMonth(y, m) ==
    IF m = 2 THEN (IF IsLeap(y) THEN 29 ELSE 28)
    ELSE IF m \in {4, 6, 9, 11} THEN 30 ELSE 31

\* Brings a day number outside 1..DaysInMonth back into the calendar.
RECURSIVE NormalizeDate(_, _, _)
NormalizeDate(y, m, d) ==
    IF d > DaysInMonth(y, m)
    THEN IF m = 12 THEN NormalizeDate(y + 1, 1, d - DaysInMonth(y, m))
         ELSE NormalizeDate(y, m + 1, d - DaysInMonth(y, m))
    ELSE IF d < 1
    THEN IF m = 1 THEN NormalizeDate(y - 1, 12, d + DaysInMonth(y - 1, 12))
         ELSE NormalizeDate(y, m - 1, d + DaysInMonth(y, m - 1))
    ELSE [year |-> y, month |-> m, day |-> d]

\* datetime + timedelta(days, hours, minutes)
AddTimedelta(dt, days, hours, minutes) ==
    LET total == dt.hour * 60 + dt.minute + hours * 60 + minutes
        date  == NormalizeDate(dt.year, dt.month,
                               dt.day + days + (total \div 1440))
    IN  [year |-> date.year, month |-> date.month, day |-> date.day,
         hour |-> (total % 1440) \div 60, minute |-> (total % 1440) % 60]

\* relativedelta.__radd__: years and months first, the day clamped to the
\* length of the month reached, then the rest as a timedelta.
AddRelativedelta(dt, rd) ==
    LET y0    == dt.year + rd.years
        m0    == dt.month + rd.months
        year  == IF m0 > 12 THEN y0 + 1 ELSE IF m0 < 1 THEN y0 - 1 ELSE y0
        month == IF m0 > 12 THEN m0 - 12 ELSE IF m0 < 1 THEN m0 + 12 ELSE m0
        day   == Min(DaysInMonth(year, month), dt.day)
    IN  AddTimedelta([dt EXCEPT !.year = year, !.month = month, !.day = day],
                     rd.days, rd.hours, rd.minutes)

\* relativedelta.__mul__
MulRelativedelta(rd, f) ==
    relativedelta(rd.years * f, rd.months * f, rd.days * f,
                  rd.hours * f, rd.minutes * f)

\* pydantic runs the validators of every field and raises one
\* ValidationError carrying the errors of all fields that failed.
AnimationRequestErrors(a) ==
    [render_params |-> _validate_render_params(a.render_params),
     unit          |-> _validate_unit(a.unit)]

\* .constants.MAX_FRAMES
MAX_FRAMES == 4

get_collection(self) ==
    DictGet(_get_render_options(self.render_params).result,
            <<"collection">>)[1]

\* The comprehension of get_encoded_render_params: the pairs of one entry,
\* then those of the entries after it.
EncodedValues(key, value) ==
    [i \in 1..Len(value) |-> key \o <<"=">> \o quote(value[i])]

RECURSIVE EncodedOptions(_)
EncodedOptions(items) ==
    IF Len(items) = 0 THEN <<>>
    ELSE EncodedValues(items[1].key, items[1].value)
         \o EncodedOptions(Tail(items))

get_encoded_render_params(self) ==
    LET encoded_options ==
            EncodedOptions(_get_render_options(self.render_params).result)
    IN  join(Append(encoded_options, <<"tile_scale", "=", "2">>), "&")

\* The requested count returned uncapped.
get_valid_frames_uncapped(self) == self.frames

get_valid_frames(self) == Min(self.frames, MAX_FRAMES)

get_relative_delta(self) == _deltas(self.unit, self.step)

----------------------------------------------------------------------------
(* pccommon/pccommon/render.py *)

\* Optional[T]: None is the empty sequence, a value v is <<v>>.
None == <<>>

Some(v) == <<v>>

\* A render_params Dict[str, Any] is a sequence of entries in insertion
\* order; a value is a text or a list of texts.
Scalar(text) == [list |-> FALSE, text |-> text, items |-> <<>>]

List(items) == [list |-> TRUE, text |-> <<>>, items |-> items]

Param(key, value) == [key |-> key, value |-> value]

\* pccommon.utils.get_param_str: key=value pairs joined by '&', the items of
\* a list joined by ','.
ParamValueStr(value) == IF value.list THEN join(value.items, ",") ELSE value.text

get_param_str(params) ==
    join([i \in 1..Len(params) |->
            params[i].key \o <<"=">> \o ParamValueStr(params[i].value)], "&")

DefaultRenderConfig(assets, render_params) ==
    [assets |-> assets, render_params |-> render_params]

\* Every asset written under the key "asset".
get_assets_params_singular(self) ==
    LET assets == IF self.assets = None THEN <<>> ELSE self.assets[1]
    IN  concat([i \in 1..Len(assets) |-> <<"&", "asset", "=">> \o assets[i]])

get_assets_params(self) ==
    LET assets == IF self.assets = None THEN <<>> ELSE self.assets[1]
        keys   == [i \in 1..Len(assets) |-> <<"&", "assets", "=">>]
        params == [i \in 1..Len(assets) |-> keys[i] \o assets[i]]
    IN  concat(params)

get_render_params(self) == <<"&">> \o get_param_str(self.render_params)

\* "if collection" and "if item" are false for None and for the empty text.
get_full_render_qs(self, collection, item) ==
    LET collection_part ==
            IF collection # <<>> THEN <<"collection", "=">> \o collection ELSE <<>>
        item_part ==
            IF item # None /\ item[1] # <<>>
            THEN <<"&", "item", "=">> \o item[1] ELSE <<>>
        asset_part  == get_assets_params(self)
        render_part == get_render_params(self)
    IN  concat(<<collection_part, item_part, asset_part, render_part>>)

\* Entries of COLLECTION_RENDER_CONFIG (a part of the table), with the
\* fields that get_full_render_qs reads.
COLLECTION_RENDER_CONFIG ==
    << [key |-> <<"alos-dem">>,
        value |-> DefaultRenderConfig(
            Some(<< <<"data">> >>),
            << Param(<<"colormap_name">>, Scalar(<<"terrain">>)),
               Param(<<"rescale">>, List(<< <<"-1000">>, <<"4000">> >>)) >>)],
       [key |-> <<"goes-cmi">>,
        value |-> DefaultRenderConfig(
            None,
            << Param(<<"expression">>,
                     Scalar(<<"C02_2km_wm", ",",
                              "0.45*C02_2km_wm+0.1*C03_2km_wm+0.45*C01_2km_wm",
                              ",", "C01_2km_wm">>)),
               Param(<<"nodata">>, Scalar(<<"-1">>)),
               Param(<<"rescale">>, List(<< <<"1">>, <<"1000">> >>)),
               Param(<<"color_formula">>,
                     Scalar(<<"Gamma", " ", "RGB", " ", "2.5", " ",
                              "Saturation", " ", "1.4", " ", "Sigmoidal", " ",
                              "RGB", " ", "2", " ", "0.7">>)),
               Param(<<"resampling">>, Scalar(<<"bilinear">>)) >>)],
       [key |-> <<"landsat-8-c2-l2">>,
        value |-> DefaultRenderConfig(
            Some(<< <<"SR_B4">>, <<"SR_B3">>, <<"SR_B2">> >>),
            << Param(<<"color_formula">>,
                     Scalar(<<"gamma", " ", "RGB", " ", "2.7", ",", " ",
                              "saturation", " ", "1.5", ",", " ", "sigmoidal",
                              " ", "RGB", " ", "15", " ", "0.55">>)) >>)],
       [key |-> <<"naip">>,
        value |-> DefaultRenderConfig(
            Some(<< <<"image">> >>),
            << Param(<<"asset_bidx">>,
                     Scalar(<<"image", "|", "1", ",", "2", ",", "3">>)) >>)] >>

\* dict.get: None for a key the table does not have.
ConfigGet(table, k) ==
    IF \E i \in 1..Len(table) : table[i].key = k
    THEN Some(table[CHOOSE i \in 1..Len(table) : table[i].key = k].value)
    ELSE None

STORAGE_ACCOUNTS_WITH_CDNS == { <<"naipeuwest">> }

BlobSuffix == <<".", "blob.core.windows", ".", "net">>

\* BLOB_REGEX at a '/' in position p with the group ending before q:
\* ".*/([^/]+?)\.blob\.core\.windows\.net.*"
RegexMatchesAt(url, p, q) ==
    /\ url[p] = "/"
    /\ q > p + 1
    /\ q + 3 <= Len(url)
    /\ \A i \in (p + 1)..(q - 1) : url[i] # "/"
    /\ SubSeq(url, q, q + 3) = BlobSuffix

RegexMatches(url) ==
    \E p \in 1..Len(url) : \E q \in 1..Len(url) : RegexMatchesAt(url, p, q)

\* re.match: the leading ".*" is greedy, so the '/' is the last one from
\* which the rest matches; the group is lazy, so it ends at the first suffix.
RegexGroup1(url) ==
    LET starts == {p \in 1..Len(url) :
                      \E q \in 1..Len(url) : RegexMatchesAt(url, p, q)}
        p == CHOOSE x \in starts : \A y \in starts : y <= x
        ends == {q \in 1..Len(url) : RegexMatchesAt(url, p, q)}
        q == CHOOSE x \in ends : \A y \in ends : x <= y
    IN  SubSeq(url, p + 1, q - 1)

\* str.replace("blob.core.windows", "azureedge"): every occurrence.
Replace(text) ==
    [i \in 1..Len(text) |->
        IF text[i] = "blob.core.windows" THEN "azureedge" ELSE text[i]]

transform_if_available(asset_href) ==
    IF RegexMatches(asset_href)
    THEN IF RegexGroup1(asset_href) \in STORAGE_ACCOUNTS_WITH_CDNS
         THEN Replace(asset_href)
         ELSE asset_href
    ELSE asset_href

----------------------------------------------------------------------------
(* pctiler/pctiler/endpoints/item.py *)

\* pc_tile_factory.url_for(request, "tilejson") and the settings' STAC API
\* address are given by the deployment.
TileJsonUrl == <<"http:", "/", "/", "tiler", "/", "item", "/", "tilejson.json">>

StacApiHref == <<"http:", "/", "/", "stac", "/">>

\* The HTTP response of the endpoint: a 404 with a text body, or the
\* rendered item_preview.html with its template context.
Response404(content) ==
    [status_code |-> 404, content |-> content, template |-> "", context |-> None]

TemplateResponse(template, context) ==
    [status_code |-> 200, content |-> <<>>, template |-> template,
     context |-> Some(context)]

\* The lookup result used without the None check.
map_unchecked(collection, item) ==
    LET render_config == ConfigGet(COLLECTION_RENDER_CONFIG, collection)
        config == IF render_config = None
                  THEN DefaultRenderConfig(None, <<>>) ELSE render_config[1]
        qs == get_full_render_qs(config, collection, Some(item))
    IN  TemplateResponse("item_preview.html",
            [tileJson |-> TileJsonUrl \o <<"?">> \o qs,
             collectionId |-> collection,
             itemId |-> item,
             itemUrl |-> StacApiHref \o <<"collections", "/">> \o collection
                         \o <<"/", "items", "/">> \o item])

map(collection, item) ==
    LET render_config == ConfigGet(COLLECTION_RENDER_CONFIG, collection)
    IN  IF render_config = None
        THEN Response404(<<"No item map available for collection ">>
                         \o collection)
        ELSE LET qs == get_full_render_qs(render_config[1], collection, Some(item))
                 tilejson_url == TileJsonUrl \o <<"?">> \o qs
                 item_url == StacApiHref \o <<"collections", "/">> \o collection
                             \o <<"/", "items", "/">> \o item
             IN  TemplateResponse("item_preview.html",
                     [tileJson |-> tilejson_url,
                      collectionId |-> collection,
                      itemId |-> item,
                      itemUrl |-> item_url])

----------------------------------------------------------------------------
(* pcfuncs/funclib/stamps/progress_bar.py *)

BAR_HEIGHT == 3

\* "frame_number / (frame_count - 1)" raises ZeroDivisionError for a
\* divisor of 0.
ApplyRaises(frame) == frame.frame_count - 1 = 0

(* IEEE 754 double arithmetic, as Python's float does it.  A positive double
   is a significand of MantissaBits bits, most significant first and leading
   bit 1, and an exponent: its value is significand * 2^exp.  0.0 has the
   empty significand.  Results are rounded to nearest, ties to even. *)

MantissaBits == 53

Zero == [bits |-> <<>>, exp |-> 0]

RECURSIVE Pow2(_)
Pow2(n) == IF n = 0 THEN 1 ELSE 2 * Pow2(n - 1)

\* The number written by the first n bits.
RECURSIVE PrefixToInt(_, _)
PrefixToInt(bits, n) ==
    IF n = 0 THEN 0 ELSE 2 * PrefixToInt(bits, n - 1) + bits[n]

BitsToInt(bits) == PrefixToInt(bits, Len(bits))

RECURSIVE IntToBits(_)
IntToBits(n) == IF n = 0 THEN <<>> ELSE Append(IntToBits(n \div 2), n % 2)

\* bits + 1: the last 0 becomes 1 and the 1s after it 0; the result is one
\* bit longer when every bit was 1.
Increment(bits) ==
    LET zeros == {i \in 1..Len(bits) : bits[i] = 0}
    IN  IF zeros = {} THEN <<1>> \o [i \in 1..Len(bits) |-> 0]
        ELSE LET z == CHOOSE i \in zeros : \A j \in zeros : j <= i
             IN  [i \in 1..Len(bits) |->
                    IF i < z THEN bits[i] ELSE IF i = z THEN 1 ELSE 0]

\* The exact value bits * 2^exp, with "more" telling that a non-zero rest
\* below the last bit was cut off, rounded to a double.
RoundToDouble(bits, exp, more) ==
    IF Len(bits) <= MantissaBits
    THEN [bits |-> bits \o [i \in 1..(MantissaBits - Len(bits)) |-> 0],
          exp  |-> exp - (MantissaBits - Len(bits))]
    ELSE LET kept   == SubSeq(bits, 1, MantissaBits)
             guard  == bits[MantissaBits + 1]
             sticky == more \/ \E i \in (MantissaBits + 2)..Len(bits) : bits[i] = 1
             up     == guard = 1 /\ (sticky \/ kept[MantissaBits] = 1)
             e      == exp + (Len(bits) - MantissaBits)
             inc    == Increment(kept)
         IN  IF ~up THEN [bits |-> kept, exp |-> e]
             ELSE IF Len(inc) = MantissaBits THEN [bits |-> inc, exp |-> e]
             ELSE [bits |-> SubSeq(inc, 1, MantissaBits), exp |-> e + 1]

\* The next n bits of the binary expansion of r / b, for 0 <= r < b.
RECURSIVE QuotientBits(_, _, _)
QuotientBits(r, b, n) ==
    IF n = 0 THEN <<>>
    ELSE IF 2 * r >= b THEN <<1>> \o QuotientBits(2 * r - b, b, n - 1)
    ELSE <<0>> \o QuotientBits(2 * r, b, n - 1)

RECURSIVE QuotientRest(_, _, _)
QuotientRest(r, b, n) ==
    IF n = 0 THEN r
    ELSE IF 2 * r >= b THEN QuotientRest(2 * r - b, b, n - 1)
    ELSE QuotientRest(2 * r, b, n - 1)

\* int / int, a >= 0 and b > 0: the integer part of a / b followed by
\* enough bits of the fraction to hold the significand and a guard bit
\* (the fraction starts with fewer zeros than b has bits), rounded.
TrueDiv(a, b) ==
    IF a = 0 THEN Zero
    ELSE LET n     == MantissaBits + 1 + Len(IntToBits(b))
             whole == IntToBits(a \div b)
             frac  == QuotientBits(a % b, b, n)
             rest  == QuotientRest(a % b, b, n)
             all   == whole \o frac
             lead  == CHOOSE i \in 1..Len(all) :
                          all[i] = 1 /\ \A j \in 1..(i - 1) : all[j] = 0
         IN  RoundToDouble(SubSeq(all, lead, Len(all)), -n, rest # 0)

LimbBits == 16

\* n written on exactly LimbBits bits.
LimbToBits(n) ==
    LET short == IntToBits(n)
    IN  [i \in 1..(LimbBits - Len(short)) |-> 0] \o short

\* bits * w + carry for a small integer w, LimbBits bits at a time from the
\* last bit up.
RECURSIVE MulBits(_, _, _)
MulBits(bits, w, carry) ==
    IF Len(bits) <= LimbBits THEN IntToBits(w * BitsToInt(bits) + carry)
    ELSE LET low == SubSeq(bits, Len(bits) - LimbBits + 1, Len(bits))
             t   == w * BitsToInt(low) + carry
         IN  MulBits(SubSeq(bits, 1, Len(bits) - LimbBits), w, t \div Pow2(LimbBits))
             \o LimbToBits(t % Pow2(LimbBits))

\* int * float, w >= 1: the exact product, rounded.
FloatMul(w, x) ==
    IF x = Zero THEN Zero
    ELSE RoundToDouble(MulBits(x.bits, w, 0), x.exp, FALSE)

\* int(float): the bits above the binary point.
FloatToInt(x) ==
    IF x = Zero THEN 0
    ELSE IF x.exp >= 0 THEN BitsToInt(x.bits) * Pow2(x.exp)
    ELSE IF -x.exp >= Len(x.bits) THEN 0
    ELSE BitsToInt(SubSeq(x.bits, 1, Len(x.bits) + x.exp))

\* int(image.width * (frame_number / (frame_count - 1)))
bar_width(image, frame) ==
    FloatToInt(FloatMul(image.width,
                        TrueDiv(frame.frame_number, frame.frame_count - 1)))

\* The returned image: the input with the bar rectangle from (0, height -
\* BAR_HEIGHT) to (bar_width, height) composited over it.
apply(image, frame) ==
    [width |-> image.width, height |-> image.height,
     bar |-> [x0 |-> 0, y0 |-> image.height - BAR_HEIGHT,
              x1 |-> bar_width(image, frame), y1 |-> image.height]]

----------------------------------------------------------------------------
(* Inputs of AnimationRequest.  bbox, zoom, cql, duration and the two show_*
   flags have no validator and no method reads them; they are left out. *)

Segments ==
    { <<"collection", "=", "naip">>,
      <<"collection", "=", "x">>,
      <<"asset", "=", "image">>,
      <<"asset", "=", "a", " ", "b">>,
      <<"tile_scale", "=", "1">>,
      <<"x">>,
      <<"x", "=", "=">>,
      <<>> }

RenderParamsInputs ==
    { join(ss, "&") : ss \in UNION { [1..n -> Segments] : n \in 1..MaxSegments } }

DefaultRenderParams == <<"collection", "=", "naip", "&", "asset", "=", "image">>

Datetime(y, mo, d, h, mi) ==
    [year |-> y, month |-> mo, day |-> d, hour |-> h, minute |-> mi]

StartInputs ==
    { Datetime(2024, 1, 31, 0, 0),
      Datetime(2024, 2, 29, 12, 0),
      Datetime(2023, 12, 31, 23, 59),
      Datetime(2024, 1, 28, 10, 30),
      Datetime(2023, 8, 30, 0, 0) }

StepInputs == {-1, 0, 1, 2, 7}

UnitInputs == {"mins", "hours", "days", "weeks", "months", "years", "decades"}

FramesInputs == (-1)..MaxFramesInput

AnimationInputs ==
    [render_params : RenderParamsInputs, start : {Datetime(2024, 1, 31, 0, 0)},
     step : {1}, unit : {"days", "decades"}, frames : {3}]
    \cup
    [render_params : {DefaultRenderParams}, start : StartInputs,
     step : StepInputs, unit : UnitInputs, frames : FramesInputs]

NoErrors == [render_params |-> NoError, unit |-> NoError]

(* Inputs of BlobCDN.transform_if_available: scheme, host, then up to
   MaxPathParts parts of path and query. *)

Scheme == <<"https:", "/", "/">>

HostInputs ==
    { <<"naipeuwest">> \o BlobSuffix,
      <<"other">> \o BlobSuffix,
      <<"example", ".", "com">> }

PathPartInputs ==
    { <<"/", "x">>,
      <<"/", "blob.core.windows">>,
      <<"/", "naipeuwest">> \o BlobSuffix,
      <<"/", "other">> \o BlobSuffix,
      <<"?", "u", "=", "naipeuwest">> \o BlobSuffix }

RestInputs ==
    { concat(ps) : ps \in UNION { [1..n -> PathPartInputs] : n \in 0..MaxPathParts } }

UrlInputs == { Scheme \o h \o r : h \in HostInputs, r \in RestInputs }

(* Inputs of get_full_render_qs and of the map endpoint *)

ConfigInputs ==
    { COLLECTION_RENDER_CONFIG[i].value : i \in 1..Len(COLLECTION_RENDER_CONFIG) }
    \cup
    [assets : {None, Some(<<>>), Some(<< <<"a">>, <<"b">> >>)},
     render_params : { <<>>, << Param(<<"nodata">>, Scalar(<<"0">>)) >> }]

CollectionInputs ==
    { <<>>, <<"unknown">> }
    \cup { COLLECTION_RENDER_CONFIG[i].key : i \in 1..Len(COLLECTION_RENDER_CONFIG) }

ItemInputs == { <<>>, <<"item1">>, <<"item2">> }

OptionalItemInputs == {None} \cup { Some(i) : i \in ItemInputs }

(* Inputs of ProgressBarStamp.apply: frame_number is a 0-based index below
   frame_count. *)

ImageInputs == [width : 1..MaxWidth, height : {BAR_HEIGHT + 5}]

FrameInputs ==
    { f \in [frame_number : 0..(MaxFrameCount - 1), frame_count : 1..MaxFrameCount] :
        f.frame_number < f.frame_count }

----------------------------------------------------------------------------
(* Operations *)

Ops == {"AnimationRequest", "transform_if_available", "get_full_render_qs",
        "map", "apply"}

Inputs(o) ==
    CASE o = "AnimationRequest"       -> AnimationInputs
      [] o = "transform_if_available" -> [asset_href : UrlInputs]
      [] o = "get_full_render_qs"     ->
            [self : ConfigInputs, collection : CollectionInputs,
             item : OptionalItemInputs]
      [] o = "map"                    ->
            [collection : CollectionInputs, item : ItemInputs]
      [] o = "apply"                  ->
            [image : ImageInputs, frame : FrameInputs]

Init ==
    /\ op \in Ops
    /\ args \in Inputs(op)
    /\ pc = "start"
    /\ requests = {}
    /\ errors = NoErrors
    /\ called = ""
    /\ ret = <<>>
    /\ raised = ""

\* AnimationRequest(**args): the object exists only if no validator raised.
Construct ==
    /\ op = "AnimationRequest"
    /\ pc = "start"
    /\ LET errs == AnimationRequestErrors(args)
       IN  /\ errors' = errs
           /\ IF errs = NoErrors
              THEN requests' = {args} /\ raised' = ""
              ELSE requests' = {} /\ raised' = "ValidationError"
    /\ pc' = "done"
    /\ UNCHANGED <<op, args, called, ret>>

Call(method, value) ==
    /\ called' = method
    /\ ret' = value
    /\ UNCHANGED <<op, args, pc, requests, errors, raised>>

GetCollection ==
    \E self \in requests : Call("get_collection", get_collection(self))

GetEncodedRenderParams ==
    \E self \in requests :
        Call("get_encoded_render_params", get_encoded_render_params(self))

GetValidFrames ==
    \E self \in requests : Call("get_valid_frames", get_valid_frames(self))

GetRelativeDelta ==
    \E self \in requests : Call("get_relative_delta", get_relative_delta(self))

Return(value) ==
    /\ pc = "start"
    /\ pc' = "done"
    /\ ret' = value
    /\ UNCHANGED <<op, args, requests, errors, called, raised>>

Raise(exception) ==
    /\ pc = "start"
    /\ pc' = "done"
    /\ raised' = exception
    /\ UNCHANGED <<op, args, requests, errors, called, ret>>

TransformIfAvailable ==
    /\ op = "transform_if_available"
    /\ Return(transform_if_available(args.asset_href))

GetFullRenderQs ==
    /\ op = "get_full_render_qs"
    /\ Return(get_full_render_qs(args.self, args.collection, args.item))

Map ==
    /\ op = "map"
    /\ Return(map(args.collection, args.item))

Apply ==
    /\ op = "apply"
    /\ IF ApplyRaises(args.frame)
       THEN Raise("ZeroDivisionError")
       ELSE Return(apply(args.image, args.frame))

Next ==
    \/ Construct
    \/ TransformIfAvailable
    \/ GetFullRenderQs
    \/ Map
    \/ Apply
    \/ GetCollection
    \/ GetEncodedRenderParams
    \/ GetValidFrames
    \/ GetRelativeDelta

Spec == Init /\ [][Next]_vars

----------------------------------------------------------------------------
(* Claims about AnimationRequest *)

Constructed == op = "AnimationRequest" /\ pc = "done"

\* The '&'-separated segments of a text, as index ranges: segment n lies
\* strictly between the n-th and the (n+1)-th boundary.
Boundaries(s) == {0, Len(s) + 1} \cup {i \in 1..Len(s) : s[i] = "&"}

SegmentRanges(s) ==
    { <<a, b>> \in Boundaries(s) \X Boundaries(s) :
        a < b /\ \A c \in Boundaries(s) : ~(a < c /\ c < b) }

EqualsIn(s, rng) ==
    Cardinality({i \in (rng[1] + 1)..(rng[2] - 1) : s[i] = "="})

IsCollectionSegment(s, rng) ==
    /\ rng[2] - rng[1] >= 3
    /\ s[rng[1] + 1] = "collection"
    /\ s[rng[1] + 2] = "="

CollectionValues(s) ==
    Cardinality({rng \in SegmentRanges(s) : IsCollectionSegment(s, rng)})

MalformedRenderParams(s) ==
    \/ \E rng \in SegmentRanges(s) : EqualsIn(s, rng) # 1
    \/ CollectionValues(s) # 1

ValidUnits == {"mins", "hours", "days", "weeks", "months", "years"}

UnitMessage ==
    <<"Invalid unit. Must be one of: ", "mins", ", ", "hours", ", ", "days",
      ", ", "weeks", ", ", "months", ", ", "years">>

\* C1: construction fails closed.  A render_params with a segment that has
\* not exactly one '=', with no collection key or with several collection
\* values, or a unit outside the six delta units, is rejected with a
\* validation error and no request object exists; the unit error lists the
\* six units; every accepted request has exactly one collection value and a
\* unit of the set.
C1_FailsClosed ==
    Constructed =>
        /\ (MalformedRenderParams(args.render_params) \/ args.unit \notin ValidUnits)
              => (requests = {} /\ raised = "ValidationError")
        /\ (args.unit \notin ValidUnits) => errors.unit = UnitMessage
        /\ MalformedRenderParams(args.render_params)
              => errors.render_params # NoError
        /\ \A r \in requests :
              /\ CollectionValues(r.render_params) = 1
              /\ ~MalformedRenderParams(r.render_params)
              /\ r.unit \in ValidUnits

\* A request with two collection values and a valid unit was rejected.
C1_Witness ==
    /\ Constructed
    /\ CollectionValues(args.render_params) = 2
    /\ \A rng \in SegmentRanges(args.render_params) :
          EqualsIn(args.render_params, rng) = 1
    /\ args.unit \in ValidUnits
    /\ requests = {}
    /\ raised = "ValidationError"

\* C2: get_valid_frames returns min(frames, MAX_FRAMES) and never raises:
\* never more than MAX_FRAMES, and the requested count when that is at most
\* MAX_FRAMES.
C2_ValidFrames ==
    called = "get_valid_frames" =>
        \A r \in requests :
            /\ raised = ""
            /\ ret <= MAX_FRAMES
            /\ r.frames <= MAX_FRAMES => ret = r.frames
            /\ r.frames > MAX_FRAMES => ret = MAX_FRAMES

\* A request for more than MAX_FRAMES frames was capped.
C2_Witness ==
    /\ called = "get_valid_frames"
    /\ \E r \in requests : r.frames > MAX_FRAMES
    /\ ret = MAX_FRAMES

(* Calendar arithmetic stated on day numbers, for the frame timestamps *)

LeapsBefore(y) == ((y - 1) \div 4) - ((y - 1) \div 100) + ((y - 1) \div 400)

RECURSIVE DaysBeforeMonth(_, _)
DaysBeforeMonth(y, m) ==
    IF m = 1 THEN 0 ELSE DaysBeforeMonth(y, m - 1) + DaysInMonth(y, m - 1)

\* Days since 2000-01-01.
DayNumber(dt) ==
    365 * (dt.year - 2000) + LeapsBefore(dt.year) - LeapsBefore(2000)
    + DaysBeforeMonth(dt.year, dt.month) + dt.day - 1

MinuteNumber(dt) == DayNumber(dt) * 1440 + dt.hour * 60 + dt.minute

IsDatetime(dt) ==
    /\ dt.month \in 1..12
    /\ dt.day \in 1..DaysInMonth(dt.year, dt.month)
    /\ dt.hour \in 0..23
    /\ dt.minute \in 0..59

UnitMinutes(unit) ==
    CASE unit = "mins" -> 1
      [] unit = "hours" -> 60
      [] unit = "days" -> 1440
      [] unit = "weeks" -> 10080

UnitMonths(unit) == IF unit = "months" THEN 1 ELSE 12

MonthIndex(dt) == dt.year * 12 + dt.month - 1

\* dt is start moved by n units: by exactly that many minutes for the fixed
\* units; for months and years to the month that many months away, on the
\* start's day of month clamped to the length of that month.
IsCalendarSum(dt, start, unit, n) ==
    /\ IsDatetime(dt)
    /\ IF unit \in {"mins", "hours", "days", "weeks"}
       THEN MinuteNumber(dt) = MinuteNumber(start) + n * UnitMinutes(unit)
       ELSE /\ MonthIndex(dt) = MonthIndex(start) + n * UnitMonths(unit)
            /\ dt.day = Min(start.day, DaysInMonth(dt.year, dt.month))
            /\ dt.hour = start.hour
            /\ dt.minute = start.minute

\* The delta applied i times in succession.
RECURSIVE ApplyTimes(_, _, _)
ApplyTimes(start, delta, i) ==
    IF i = 0 THEN start
    ELSE AddRelativedelta(ApplyTimes(start, delta, i - 1), delta)

FrameIndexes(r) == 0..(get_valid_frames(r) - 1)

\* C3 as stated: for every accepted start, step and unit and every frame
\* index, applying the returned delta i times in succession from start gives
\* start + i * delta in calendar arithmetic, also for months and years with
\* start days 29 to 31.
C3_SuccessiveEqualsDirect ==
    called = "get_relative_delta" =>
        \A r \in requests : \A i \in FrameIndexes(r) :
            IsCalendarSum(ApplyTimes(r.start, ret, i), r.start, r.unit, i * r.step)

\* C3 amended: the equality holds for mins, hours, days and weeks, and for
\* months and years when the start day is at most 28.  For start days 29 to
\* 31 the successive application reaches the same month and time of day, on
\* a day no later than that of start + i * delta.
C3_SuccessiveEqualsDirectUpTo28 ==
    called = "get_relative_delta" =>
        \A r \in requests : \A i \in FrameIndexes(r) :
            LET dt == ApplyTimes(r.start, ret, i)
            IN  IF r.unit \in {"mins", "hours", "days", "weeks"} \/ r.start.day <= 28
                THEN IsCalendarSum(dt, r.start, r.unit, i * r.step)
                ELSE /\ IsDatetime(dt)
                     /\ MonthIndex(dt) = MonthIndex(r.start) + i * r.step * UnitMonths(r.unit)
                     /\ dt.day <= Min(r.start.day, DaysInMonth(dt.year, dt.month))
                     /\ dt.hour = r.start.hour
                     /\ dt.minute = r.start.minute

\* A delta of 7 weeks was returned for a request of at least three frames.
C3_Witness ==
    /\ called = "get_relative_delta"
    /\ \E r \in requests :
          r.unit = "weeks" /\ r.step = 7 /\ get_valid_frames(r) >= 3
    /\ ret.days = 49

\* Position among the segments of the first one that has the key of segment n.
KeyOf(seg) == split(seg, "=")[1]

ValueOf(seg) == split(seg, "=")[2]

FirstWithKey(segs, n) ==
    CHOOSE m \in 1..n :
        /\ KeyOf(segs[m]) = KeyOf(segs[n])
        /\ \A j \in 1..(m - 1) : KeyOf(segs[j]) # KeyOf(segs[n])

\* Segment m is written before segment n: its key appeared first, or they
\* share the key and m came first.
WrittenBefore(segs, m, n) ==
    \/ FirstWithKey(segs, m) < FirstWithKey(segs, n)
    \/ FirstWithKey(segs, m) = FirstWithKey(segs, n) /\ m < n

OutputPosition(segs, n) ==
    1 + Cardinality({m \in 1..Len(segs) : WrittenBefore(segs, m, n)})

\* C4: get_encoded_render_params writes, joined by '&', one key=encoded(value)
\* pair per input segment, grouped by key in order of first appearance and
\* within a key in input order, then one final tile_scale=2; the output has
\* one more pair than the input has segments, also when the input has a
\* tile_scale key.
C4_EncodedRenderParams ==
    called = "get_encoded_render_params" =>
        \A r \in requests :
            LET segs  == split(r.render_params, "&")
                pairs == split(ret, "&")
            IN  /\ Len(pairs) = Len(segs) + 1
                /\ pairs[Len(pairs)] = <<"tile_scale", "=", "2">>
                /\ \A n \in 1..Len(segs) :
                      pairs[OutputPosition(segs, n)]
                        = KeyOf(segs[n]) \o <<"=">> \o quote(ValueOf(segs[n]))

\* asset=a b&collection=naip&asset=image was encoded: the two asset pairs
\* are written together, first, the space as %20, then the collection.
C4_Witness ==
    /\ called = "get_encoded_render_params"
    /\ \E r \in requests :
          r.render_params = <<"asset", "=", "a", " ", "b", "&",
                              "collection", "=", "naip", "&",
                              "asset", "=", "image">>
    /\ ret = <<"asset", "=", "a", "%20", "b", "&", "asset", "=", "image", "&",
               "collection", "=", "naip", "&", "tile_scale", "=", "2">>

\* C10: every accepted AnimationRequest has step >= 1, so that the delta
\* moves time strictly forward.
C10_StepAtLeastOne ==
    \A r \in requests :
        /\ r.step >= 1
        /\ r.unit \in {"mins", "hours", "days", "weeks"} =>
              MinuteNumber(AddRelativedelta(r.start, get_relative_delta(r)))
                > MinuteNumber(r.start)

----------------------------------------------------------------------------
(* Claims about the render query string, the CDN rewrite, the map endpoint
   and the progress bar *)

Returned(o) == op = o /\ pc = "done" /\ raised = ""

AssetsOf(config) == IF config.assets = None THEN <<>> ELSE config.assets[1]

\* qs is collection={collection}, then item={item} if hasItem, then one
\* assets={a} per asset in list order, then the serialized render params,
\* each part after the first introduced by one '&'.
HasQsShape(qs, config, collection, hasItem, item) ==
    LET parts  == split(qs, "&")
        nItem  == IF hasItem THEN 1 ELSE 0
        assets == AssetsOf(config)
        fixed  == 1 + nItem + Len(assets)
    IN  /\ Len(parts) > fixed
        /\ parts[1] = <<"collection", "=">> \o collection
        /\ hasItem => parts[2] = <<"item", "=">> \o item
        /\ \A i \in 1..Len(assets) :
              parts[1 + nItem + i] = <<"assets", "=">> \o assets[i]
        /\ join(SubSeq(parts, fixed + 1, Len(parts)), "&")
              = get_param_str(config.render_params)

ItemText(item) == IF item = None THEN <<>> ELSE item[1]

AfterScheme(url) == SubSeq(url, Len(Scheme) + 1, Len(url))

HostLen(url) ==
    LET rest == AfterScheme(url)
        stops == {i \in 1..Len(rest) : rest[i] \in {"/", "?"}}
    IN  IF stops = {} THEN Len(rest)
        ELSE (CHOOSE i \in stops : \A j \in stops : i <= j) - 1

HostOf(url) == SubSeq(AfterScheme(url), 1, HostLen(url))

PathAndQueryOf(url) == SubSeq(AfterScheme(url), HostLen(url) + 1, Len(AfterScheme(url)))

HostAllowListed(url) ==
    \E account \in STORAGE_ACCOUNTS_WITH_CDNS : HostOf(url) = account \o BlobSuffix

\* C6: a URL whose host is not {account}.blob.core.windows.net with an
\* allow-listed account is returned unchanged, also when such a text appears
\* in its path or query.
C6_OtherHostsUnchanged ==
    (Returned("transform_if_available") /\ ~HostAllowListed(args.asset_href))
        => ret = args.asset_href

\* C7: when a URL with an allow-listed host account is rewritten, only
\* blob.core.windows of the host becomes azureedge; scheme, path and query
\* stay as they were.
C7_OnlyHostRewritten ==
    (Returned("transform_if_available") /\ HostAllowListed(args.asset_href)
       /\ ret # args.asset_href)
        => ret = Scheme \o Replace(HostOf(args.asset_href))
                 \o PathAndQueryOf(args.asset_href)

\* C8: apply with frame_count = 1 and frame_number = 0 returns an image and
\* raises nothing.
C8_SingleFrameReturns ==
    (op = "apply" /\ pc = "done"
       /\ args.frame.frame_count = 1 /\ args.frame.frame_number = 0)
        => raised = ""

KnownCollections ==
    { <<"alos-dem">>, <<"goes-cmi">>, <<"landsat-8-c2-l2">>, <<"naip">> }

ConfigsOf(collection) ==
    { i \in 1..Len(COLLECTION_RENDER_CONFIG) :
        COLLECTION_RENDER_CONFIG[i].key = collection }

\* C9: for a collection that is no key of COLLECTION_RENDER_CONFIG the map
\* endpoint returns a 404 whose message names the collection, raises nothing
\* and builds no query string or tilejson URL; for a key it returns the
\* preview page with the query string of that collection's one config.
C9_MapAbsentIs404 ==
    (op = "map" /\ pc = "done") =>
        /\ raised = ""
        /\ IF args.collection \in KnownCollections
           THEN /\ ret.status_code = 200
                /\ ret.template = "item_preview.html"
                /\ Cardinality(ConfigsOf(args.collection)) = 1
                /\ \E i \in ConfigsOf(args.collection) :
                      ret.context[1].tileJson =
                        TileJsonUrl \o <<"?">>
                        \o get_full_render_qs(COLLECTION_RENDER_CONFIG[i].value,
                                              args.collection, Some(args.item))
           ELSE /\ ret.status_code = 404
                /\ ret.content = <<"No item map available for collection ">>
                                  \o args.collection
                /\ ret.context = None

\* The endpoint answered 404 for the collection "unknown".
C9_Witness ==
    /\ op = "map" /\ pc = "done"
    /\ args.collection = <<"unknown">>
    /\ ret.status_code = 404
    /\ ret.content = <<"No item map available for collection ", "unknown">>

\* The integer part of W * frame_number / (frame_count - 1).
ExactBarWidth(image, frame) ==
    (image.width * frame.frame_number) \div (frame.frame_count - 1)

PreviousFrame(frame) == [frame EXCEPT !.frame_number = frame.frame_number - 1]

\* C11: for every width W >= 1, frame_count >= 2 and frame_number below
\* frame_count, the bar width is the integer part of
\* W * frame_number / (frame_count - 1): it lies in 0..W, is 0 on frame 0,
\* is not smaller than on the frame before, and is W on the last frame and
\* on no earlier one.
C11_BarWidthIsIntegerPart ==
    (Returned("apply") /\ args.frame.frame_count >= 2) =>
        /\ ret.bar.x1 = ExactBarWidth(args.image, args.frame)
        /\ ret.bar.x1 \in 0..args.image.width
        /\ args.frame.frame_number = 0 => ret.bar.x1 = 0
        /\ args.frame.frame_number > 0 =>
              bar_width(args.image, PreviousFrame(args.frame)) <= ret.bar.x1
        /\ ret.bar.x1 = args.image.width
              <=> args.frame.frame_number = args.frame.frame_count - 1

====
